---- MODULE Spec2Model ----
(***************************************************************************)
(* A model of array.h: array_t<T>, a growable array over a malloc'ed       *)
(* buffer, kept as plain data (data, count, capacity).                     *)
(*                                                                         *)
(* The heap is modelled block by block.  A pointer is a block id (NULL is  *)
(* 0); a block is live or not and holds one cell per element slot.  A cell *)
(* that was never written holds Indet: reading it yields any value.        *)
(* ARRAY_ASSERT is the default assert of a build without NDEBUG: a failed  *)
(* assertion aborts the process (status "assert").  An access outside the  *)
(* block is undefined behaviour: it either faults (status "fault") or goes *)
(* through silently.  size_t arithmetic is modular; TLC's integers are 32  *)
(* bits wide, so the modulus is 2^SizeBits with a small SizeBits, far      *)
(* above every count and capacity the bounds allow.                        *)
(*                                                                         *)
(* array_view_t<T> is (data, count, stride, offset); stride and offset are *)
(* counted in units of sizeof(T), so a record of the viewed memory is      *)
(* stride cells of a block and the field of record i is cell i*stride +    *)
(* offset.  set() dereferences that address.  get(), operator[] and last() *)
(* cast the address itself, a prvalue of type uint8_t*, to T&: a build     *)
(* either rejects that cast or reads a T out of the temporary holding the  *)
(* address, so what they return does not depend on the memory viewed and   *)
(* is modelled as any value of T.                                          *)
(***************************************************************************)
EXTENDS Integers, Sequences, FiniteSets, TLC

\* ------------------------------------------------------------------ bounds
MaxCap == 4        \* no operation is taken that would ask for more capacity
NumAddr == 4       \* block ids
MaxAdds == 8       \* length of the add-only runs of SpecAdd
MaxGrowCap == 8    \* capacity bound of the add/insert runs of SpecGrow
MaxRec == 2        \* records under a view of SpecView
MaxStride == 3     \* sizeof(D) of those records, in units of sizeof(T)
Values == {10, 20} \* element values
Handles == {"a", "b"}

SizeBits == 16     \* width of size_t in the model

\* --------------------------------------------------------------- constants
NULL == 0
Indet == -1
SizeMod == 2 ^ SizeBits
SizeT(x) == x % SizeMod

Addr == 1 .. NumAddr

VARIABLES heap, arrays, status, phase, call, log, view, packed

vars == <<heap, arrays, status, phase, call, log, view, packed>>

\* ------------------------------------------------------------ the allocator
Dead == [live |-> FALSE, cells |-> << >>]
Blank(n) == [i \in 1 .. n |-> Indet]
Zeroed == [data |-> NULL, count |-> 0, capacity |-> 0]

\* The pointers some variable of the program still holds.
Referenced(arrs) == {arrs[h].data : h \in Handles} \ {NULL}

\* A block malloc may hand out: not live, and no pointer to it is held.
Fresh(hp, refs) ==
  CHOOSE p \in Addr : /\ ~hp[p].live /\ p \notin refs
                      /\ \A q \in Addr : (~hp[q].live /\ q \notin refs) => p <= q

\* ARRAY_MALLOC(n elements): malloc(0) returns NULL or a unique pointer.
malloc(hp, refs, n) ==
  IF n = 0 THEN {NULL, Fresh(hp, refs)} ELSE {Fresh(hp, refs)}

\* The heap after ARRAY_MALLOC returned p for n elements.
Allocated(hp, p, n) ==
  IF p = NULL THEN hp ELSE [hp EXCEPT ![p] = [live |-> TRUE, cells |-> Blank(n)]]

\* ARRAY_FREE(p): free(NULL) does nothing.
dealloc(hp, p) ==
  IF p = NULL THEN hp ELSE [hp EXCEPT ![p] = Dead]

\* memcpy(dst, src, n elements), dst and src distinct blocks (or n = 0).
memcpy(hp, dst, src, n) ==
  IF n = 0 THEN hp
  ELSE [hp EXCEPT ![dst].cells =
          [i \in 1 .. Len(@) |-> IF i <= n THEN hp[src].cells[i] ELSE @[i]]]

\* memmove(arr + to, arr + from, n elements) inside block p (0-based slots).
memmove(hp, p, to, from, n) ==
  IF n = 0 THEN hp
  ELSE [hp EXCEPT ![p].cells =
          [i \in 1 .. Len(@) |->
             IF i - 1 >= to /\ i - 1 < to + n THEN hp[p].cells[(i - 1) - to + from + 1]
             ELSE @[i]]]

\* The elements [0, count) of array A, in order.
Elems(hp, A) ==
  IF A.count = 0 THEN << >> ELSE [i \in 1 .. A.count |-> hp[A.data].cells[i]]

\* What one call does: the heap and the array after it, what it returned,
\* how many times it called resize, and how it ended.
Res(hp, A, ret, n, st) ==
  [heap |-> hp, arr |-> A, ret |-> ret, resizes |-> n, st |-> st]

\* ------------------------------------------------------------------ array_t
\* resize that leaves the old elements behind (no memcpy).
resizeWithNoCopy(hp, A, to, p) ==
  LET cnt == IF A.count > to THEN to ELSE A.count
  IN  Res(dealloc(Allocated(hp, p, to), A.data),
          [data |-> p, count |-> cnt, capacity |-> to], 0, 1, "ok")

\* resize that does not truncate count to the new capacity.
resizeWithNoTruncate(hp, A, to, p) ==
  LET hp1 == Allocated(hp, p, to)
      hp2 == memcpy(hp1, p, A.data, A.count)
      hp3 == dealloc(hp2, A.data)
  IN  Res(hp3, [data |-> p, count |-> A.count, capacity |-> to], 0, 1, "ok")

\* resize that copies one element too few.
resizeWithShortCopy(hp, A, to, p) ==
  LET cnt == IF A.count > to THEN to ELSE A.count
      hp1 == Allocated(hp, p, to)
      hp2 == memcpy(hp1, p, A.data, IF cnt > 0 THEN cnt - 1 ELSE 0)
      hp3 == dealloc(hp2, A.data)
  IN  Res(hp3, [data |-> p, count |-> cnt, capacity |-> to], 0, 1, "ok")

\* resize that never frees the old buffer.
resizeWithNoFree(hp, A, to, p) ==
  LET cnt == IF A.count > to THEN to ELSE A.count
      hp1 == Allocated(hp, p, to)
      hp2 == memcpy(hp1, p, A.data, cnt)
  IN  Res(hp2, [data |-> p, count |-> cnt, capacity |-> to], 0, 1, "ok")

\* resize(to_capacity), with p the pointer ARRAY_MALLOC returned.
resizeWith(hp, A, to, p) ==
  LET cnt == IF A.count > to THEN to ELSE A.count
      hp1 == Allocated(hp, p, to)
      hp2 == memcpy(hp1, p, A.data, cnt)
      hp3 == dealloc(hp2, A.data)
  IN  Res(hp3, [data |-> p, count |-> cnt, capacity |-> to], 0, 1, "ok")

resize(hp, refs, A, to) ==
  {resizeWith(hp, A, to, p) : p \in malloc(hp, refs, to)}

\* add(item): grow when count+1 >= capacity, store at count, return the index.
add(hp, refs, A, item) ==
  LET grown == IF A.count + 1 >= A.capacity
               THEN resize(hp, refs, A,
                           IF A.capacity * 2 < 4 THEN 4 ELSE A.capacity * 2)
               ELSE {Res(hp, A, 0, 0, "ok")}
  IN  {Res([g.heap EXCEPT ![g.arr.data].cells[g.arr.count + 1] = item],
           [g.arr EXCEPT !.count = @ + 1],
           (g.arr.count + 1) - 1, g.resizes, "ok") : g \in grown}

\* clear()
clear(hp, A) ==
  {Res(hp, [A EXCEPT !.count = 0], 0, 0, "ok")}

\* remove that drops the last slot instead of closing the gap at aAt.
removeLastSlot(hp, A, at) ==
  IF ~(at < A.count) THEN {Res(hp, A, 0, 0, "assert")}
  ELSE {Res(hp, [A EXCEPT !.count = @ - 1], 0, 0, "ok")}

\* remove that moves one element too few.
removeShortMove(hp, A, at) ==
  IF ~(at < A.count) THEN {Res(hp, A, 0, 0, "assert")}
  ELSE {Res(memmove(hp, A.data, at, at + 1,
                    IF A.count - (at + 1) > 0 THEN A.count - (at + 1) - 1 ELSE 0),
            [A EXCEPT !.count = @ - 1], 0, 0, "ok")}

\* remove(aAt)
remove(hp, A, at) ==
  IF ~(at < A.count) THEN {Res(hp, A, 0, 0, "assert")}
  ELSE {Res(memmove(hp, A.data, at, at + 1, A.count - (at + 1)),
            [A EXCEPT !.count = @ - 1], 0, 0, "ok")}

\* pop that removes the first element.
popFirst(hp, A) ==
  remove(hp, A, 0)

\* pop(): remove(count - 1), the subtraction done in size_t.
pop(hp, A) ==
  remove(hp, A, SizeT(A.count - 1))

\* insert that grows before it checks aAt.
insertGrowFirst(hp, refs, A, at, item) ==
  LET grown == IF A.count + 1 > A.capacity
               THEN resize(hp, refs, A,
                           IF A.capacity < 1 THEN 1 ELSE A.capacity * 2)
               ELSE {Res(hp, A, 0, 0, "ok")}
  IN  {IF ~(at <= A.count) THEN Res(g.heap, g.arr, 0, g.resizes, "assert")
       ELSE LET hp1 == memmove(g.heap, g.arr.data, at + 1, at, g.arr.count - at)
                hp2 == [hp1 EXCEPT ![g.arr.data].cells[at + 1] = item]
            IN  Res(hp2, [g.arr EXCEPT !.count = @ + 1], 0, g.resizes, "ok")
       : g \in grown}

\* insert that writes the item before it shifts the tail.
insertWriteFirst(hp, refs, A, at, item) ==
  IF ~(at <= A.count) THEN {Res(hp, A, 0, 0, "assert")}
  ELSE
    LET grown == IF A.count + 1 > A.capacity
                 THEN resize(hp, refs, A,
                             IF A.capacity < 1 THEN 1 ELSE A.capacity * 2)
                 ELSE {Res(hp, A, 0, 0, "ok")}
    IN  {LET hp1 == [g.heap EXCEPT ![g.arr.data].cells[at + 1] = item]
             hp2 == memmove(hp1, g.arr.data, at + 1, at, g.arr.count - at)
         IN  Res(hp2, [g.arr EXCEPT !.count = @ + 1], 0, g.resizes, "ok")
         : g \in grown}

\* insert that grows with the seed of add.
insertSeedOfAdd(hp, refs, A, at, item) ==
  IF ~(at <= A.count) THEN {Res(hp, A, 0, 0, "assert")}
  ELSE
    LET grown == IF A.count + 1 > A.capacity
                 THEN resize(hp, refs, A,
                             IF A.capacity * 2 < 4 THEN 4 ELSE A.capacity * 2)
                 ELSE {Res(hp, A, 0, 0, "ok")}
    IN  {LET hp1 == memmove(g.heap, g.arr.data, at + 1, at, g.arr.count - at)
             hp2 == [hp1 EXCEPT ![g.arr.data].cells[at + 1] = item]
         IN  Res(hp2, [g.arr EXCEPT !.count = @ + 1], 0, g.resizes, "ok")
         : g \in grown}

\* insert(aAt, item)
insert(hp, refs, A, at, item) ==
  IF ~(at <= A.count) THEN {Res(hp, A, 0, 0, "assert")}
  ELSE
    LET grown == IF A.count + 1 > A.capacity
                 THEN resize(hp, refs, A,
                             IF A.capacity < 1 THEN 1 ELSE A.capacity * 2)
                 ELSE {Res(hp, A, 0, 0, "ok")}
    IN  {LET B   == g.arr
             hp1 == memmove(g.heap, B.data, at + 1, at, B.count - at)
             hp2 == [hp1 EXCEPT ![B.data].cells[at + 1] = item]
         IN  Res(hp2, [B EXCEPT !.count = @ + 1], 0, g.resizes, "ok")
         : g \in grown}

\* The loop of reverse() running to count/2 inclusive.
RECURSIVE reverseLoopOneMore(_, _, _)
reverseLoopOneMore(cells, i, count) ==
  IF ~(i <= count \div 2 /\ i < count) THEN cells
  ELSE LET tmp == cells[i + 1]
           c1  == [cells EXCEPT ![i + 1] = cells[(count - i - 1) + 1]]
           c2  == [c1 EXCEPT ![(count - i - 1) + 1] = tmp]
       IN  reverseLoopOneMore(c2, i + 1, count)

\* The loop of reverse(): swap slots i and count-i-1 while i < count/2.
RECURSIVE reverseLoop(_, _, _)
reverseLoop(cells, i, count) ==
  IF ~(i < count \div 2) THEN cells
  ELSE LET tmp == cells[i + 1]
           c1  == [cells EXCEPT ![i + 1] = cells[(count - i - 1) + 1]]
           c2  == [c1 EXCEPT ![(count - i - 1) + 1] = tmp]
       IN  reverseLoop(c2, i + 1, count)

\* reverse()
reverse(hp, A) ==
  IF A.count \div 2 = 0 THEN {Res(hp, A, 0, 0, "ok")}
  ELSE {Res([hp EXCEPT ![A.data].cells = reverseLoop(@, 0, A.count)],
            A, 0, 0, "ok")}

\* copy that hands out the source's own buffer.
copyShallow(hp, refs, A) ==
  {Res(hp, A, 0, 0, "ok")}

\* copy(): arr is the array returned; the source is left as it is.
copy(hp, refs, A) ==
  {Res(memcpy(Allocated(hp, p, A.capacity), p, A.data, A.count),
       [data |-> p, count |-> A.count, capacity |-> A.capacity], 0, 0, "ok")
   : p \in malloc(hp, refs, A.capacity)}

\* free that leaves capacity as it was.
freeKeepsCapacity(hp, A) ==
  {Res(dealloc(hp, A.data), [Zeroed EXCEPT !.capacity = A.capacity], 0, 0, "ok")}

\* free that resets the fields and leaves the buffer allocated.
freeNoDealloc(hp, A) ==
  {Res(hp, Zeroed, 0, 0, "ok")}

\* free()
free(hp, A) ==
  {Res(dealloc(hp, A.data), Zeroed, 0, 0, "ok")}

\* Whether slot id lies inside the block A.data points to.
InBlock(hp, A, id) ==
  A.data # NULL /\ hp[A.data].live /\ id < Len(hp[A.data].cells)

\* What a read of a cell can yield.
ReadOf(c) ==
  IF c = Indet THEN Values ELSE {c}

\* set(id, val): no check; a write outside the block is undefined.
set(hp, A, id, val) ==
  IF InBlock(hp, A, id)
  THEN {Res([hp EXCEPT ![A.data].cells[id + 1] = val], A, 0, 0, "ok")}
  ELSE {Res(hp, A, 0, 0, "ok"), Res(hp, A, 0, 0, "fault")}

\* get(id): no check; a read outside the block is undefined.
get(hp, A, id) ==
  IF InBlock(hp, A, id)
  THEN {Res(hp, A, v, 0, "ok") : v \in ReadOf(hp[A.data].cells[id + 1])}
  ELSE {Res(hp, A, v, 0, "ok") : v \in Values} \cup {Res(hp, A, 0, 0, "fault")}

\* operator[](id)
index(hp, A, id) ==
  get(hp, A, id)

\* last(): data[count - 1], the subtraction done in size_t.
last(hp, A) ==
  get(hp, A, SizeT(A.count - 1))

\* ------------------------------------------------------------- array_view_t
NoView == [data |-> NULL, count |-> 0, stride |-> 0, offset |-> 0]

\* array_view_create(data, count, offset), stride standing for sizeof(D).
array_view_create_data(data, count, stride, offset) ==
  [data |-> data, count |-> count, stride |-> stride, offset |-> offset]

\* array_view_create that captures the capacity as the count.
array_view_create_capacity(src, stride, offset) ==
  [data |-> src.data, count |-> src.capacity, stride |-> stride, offset |-> offset]

\* array_view_create(src, offset), stride standing for sizeof(D).
array_view_create(src, stride, offset) ==
  [data |-> src.data, count |-> src.count, stride |-> stride, offset |-> offset]

\* The cell at (uint8_t*)data + id*stride + offset, 0-based.
SlotOf(V, id) == id * V.stride + V.offset

\* What a view call does: the heap after it, what it returned, how it ended.
VRes(hp, ret, st) == [heap |-> hp, ret |-> ret, st |-> st]

\* array_view_t::set(id, val): *(T*)(address) = val.
viewSet(hp, V, id, val) ==
  IF V.data # NULL /\ hp[V.data].live /\ SlotOf(V, id) < Len(hp[V.data].cells)
  THEN {VRes([hp EXCEPT ![V.data].cells[SlotOf(V, id) + 1] = val], 0, "ok")}
  ELSE {VRes(hp, 0, "ok"), VRes(hp, 0, "fault")}

\* array_view_t::get(id): (T&)(address), a T read out of the address value.
viewGet(hp, V, id) ==
  {VRes(hp, v, "ok") : v \in Values}

\* array_view_t::operator[](id)
viewIndex(hp, V, id) ==
  {VRes(hp, v, "ok") : v \in Values}

\* array_view_t::last()
viewLast(hp, V) ==
  {VRes(hp, v, "ok") : v \in Values}

\* copy_deinterlace(): result[i] = this->get(i) into a malloc'ed buffer; ret
\* is the pointer returned.
copy_deinterlace(hp, refs, V) ==
  {VRes([Allocated(hp, p, V.count) EXCEPT ![p].cells = c], p, "ok") :
     p \in malloc(hp, refs, V.count) \ {NULL},
     c \in {f \in [1 .. V.count -> Values] :
              \A i \in 1 .. V.count :
                f[i] \in {r.ret : r \in viewGet(hp, V, i - 1)}}}
    \cup {VRes(hp, NULL, "ok") : p \in malloc(hp, refs, V.count) \cap {NULL}}

\* ------------------------------------------------------------ state machine
\* heap    the blocks
\* arrays  the two array_t handles: "a", and "b", the array copy() returned
\* status  "ok" while the process runs, "assert" after a failed ARRAY_ASSERT,
\*         "fault" after a faulting access
\* phase   "single" while only "a" exists, "copied" right after b = a.copy(),
\*         "after" once one more call was made
\* call    the last call: its name, handle, arguments, result, the number of
\*         resize calls it made, the state it started from (pre), and, for a
\*         remove or pop that directly follows an insert or add on the same
\*         handle, or a reverse that directly follows a reverse, that earlier
\*         call (prev)
\* log     the calls of an add-only run, in order
\* view    the array_view_t, NoView until one is created
\* packed  the buffer copy_deinterlace() returned, NULL before
NoPrev == [op |-> "none", at |-> 0, resizes |-> 0, count |-> 0, elems |-> << >>]

NoCall ==
  [op |-> "init", h |-> "a", at |-> 0, val |-> 0, ret |-> 0, resizes |-> 0,
   pre |-> [heap |-> [p \in Addr |-> Dead], arrays |-> [h \in Handles |-> Zeroed],
            view |-> NoView],
   prev |-> NoPrev]

Init ==
  /\ heap = [p \in Addr |-> Dead]
  /\ arrays = [h \in Handles |-> Zeroed]
  /\ status = "ok"
  /\ phase = "single"
  /\ call = NoCall
  /\ log = << >>
  /\ view = NoView
  /\ packed = NULL

\* The handles that exist.
Made == IF phase = "single" THEN {"a"} ELSE Handles

\* The earlier call a remove, pop or reverse on h undoes, if the last call
\* was one.
PrevOf(name, h) ==
  IF /\ \/ name \in {"remove", "pop"} /\ call.op \in {"insert", "add"}
        \/ name = "reverse" /\ call.op = "reverse"
     /\ call.h = h
  THEN [op |-> call.op, at |-> call.at, resizes |-> call.resizes,
        count |-> call.pre.arrays[h].count,
        elems |-> Elems(call.pre.heap, call.pre.arrays[h])]
  ELSE NoPrev

\* One call name(at, val) on handle h with the outcomes the code allows; tgt
\* is the handle that receives the resulting array, maxcap the capacity bound.
Call(name, h, tgt, at, val, outcomes, maxcap, logged) ==
  /\ status = "ok"
  /\ phase # "after"
  /\ h \in Made
  /\ \E r \in outcomes :
       /\ r.arr.capacity <= maxcap
       /\ heap' = r.heap
       /\ arrays' = [arrays EXCEPT ![tgt] = r.arr]
       /\ status' = r.st
       /\ call' = [op |-> name, h |-> h, at |-> at, val |-> val, ret |-> r.ret,
                   resizes |-> r.resizes,
                   pre |-> [heap |-> heap, arrays |-> arrays, view |-> view],
                   prev |-> PrevOf(name, h)]
       /\ log' = IF logged
                 THEN Append(log, [val |-> val, ret |-> r.ret,
                                   resizes |-> r.resizes,
                                   capacity |-> r.arr.capacity])
                 ELSE log
  /\ phase' = IF name = "copy" THEN "copied"
              ELSE IF phase = "copied" THEN "after" ELSE phase

\* A call of array_t: the view and the packed buffer are not touched.
Do(name, h, tgt, at, val, outcomes, maxcap, logged) ==
  /\ Call(name, h, tgt, at, val, outcomes, maxcap, logged)
  /\ UNCHANGED <<view, packed>>

\* The pointers held: by the arrays, by the view, and to the packed buffer.
Refs == Referenced(arrays) \cup ({view.data, packed} \ {NULL})

Add(h, v) ==
  /\ h \in Made
  /\ Do("add", h, h, 0, v, add(heap, Refs, arrays[h], v), MaxCap, FALSE)

Clear(h) ==
  /\ h \in Made
  /\ Do("clear", h, h, 0, 0, clear(heap, arrays[h]), MaxCap, FALSE)

Pop(h) ==
  /\ h \in Made
  /\ Do("pop", h, h, 0, 0, pop(heap, arrays[h]), MaxCap, FALSE)

Resize(h, to) ==
  /\ h \in Made
  /\ Do("resize", h, h, to, 0, resize(heap, Refs, arrays[h], to), MaxCap, FALSE)

Free(h) ==
  /\ h \in Made
  /\ Do("free", h, h, 0, 0, free(heap, arrays[h]), MaxCap, FALSE)

Remove(h, at) ==
  /\ h \in Made
  /\ Do("remove", h, h, at, 0, remove(heap, arrays[h], at), MaxCap, FALSE)

Insert(h, at, v) ==
  /\ h \in Made
  /\ Do("insert", h, h, at, v, insert(heap, Refs, arrays[h], at, v), MaxCap, FALSE)

Reverse(h) ==
  /\ h \in Made
  /\ Do("reverse", h, h, 0, 0, reverse(heap, arrays[h]), MaxCap, FALSE)

Set(h, id, v) ==
  /\ h \in Made
  /\ Do("set", h, h, id, v, set(heap, arrays[h], id, v), MaxCap, FALSE)

Get(h, id) ==
  /\ h \in Made
  /\ Do("get", h, h, id, 0, get(heap, arrays[h], id), MaxCap, FALSE)

Index(h, id) ==
  /\ h \in Made
  /\ Do("index", h, h, id, 0, index(heap, arrays[h], id), MaxCap, FALSE)

Last(h) ==
  /\ h \in Made
  /\ Do("last", h, h, 0, 0, last(heap, arrays[h]), MaxCap, FALSE)

\* b = a.copy(), once.
Copy ==
  /\ phase = "single"
  /\ Do("copy", "a", "b", 0, 0, copy(heap, Refs, arrays["a"]), MaxCap, FALSE)

\* An add of an add-only run, logged.
AddLogged(v) ==
  /\ Len(log) < MaxAdds
  /\ Do("add", "a", "a", 0, v, add(heap, Refs, arrays["a"], v), SizeMod, TRUE)

\* The arguments tried: every index up to MaxCap, one past every valid one.
Ids == 0 .. MaxCap

Mutators(h) ==
  \/ \E v \in Values : Add(h, v)
  \/ Clear(h)
  \/ Pop(h)
  \/ \E to \in 0 .. MaxCap : Resize(h, to)
  \/ Free(h)
  \/ \E at \in Ids : Remove(h, at)
  \/ \E at \in Ids, v \in Values : Insert(h, at, v)
  \/ Reverse(h)
  \/ \E id \in Ids, v \in Values : Set(h, id, v)

Accessors(h) ==
  \/ \E id \in Ids : Get(h, id)
  \/ \E id \in Ids : Index(h, id)
  \/ Last(h)

\* One array.
Next == Mutators("a") \/ Accessors("a")

Spec == Init /\ [][Next]_vars

\* Two arrays: "a" is built, then b = a.copy(), then one call changes either.
NextCopy ==
  \/ \E h \in Handles : Mutators(h)
  \/ Copy

SpecCopy == Init /\ [][NextCopy]_vars

\* Adds and inserts only, up to capacity MaxGrowCap.
GrowAdd(v) ==
  /\ phase = "single"
  /\ Do("add", "a", "a", 0, v, add(heap, Refs, arrays["a"], v), MaxGrowCap, FALSE)

GrowInsert(at, v) ==
  /\ phase = "single"
  /\ Do("insert", "a", "a", at, v, insert(heap, Refs, arrays["a"], at, v),
        MaxGrowCap, FALSE)

NextGrow ==
  \/ \E v \in Values : GrowAdd(v)
  \/ \E at \in 0 .. MaxGrowCap, v \in Values : GrowInsert(at, v)

SpecGrow == Init /\ [][NextGrow]_vars

\* Adds only, from the zeroed array.
NextAdd == \E v \in Values : AddLogged(v)

SpecAdd == Init /\ [][NextAdd]_vars

\* A view over records the caller owns: MaxRec or fewer records of MaxStride
\* or fewer cells each, in block 1, the field at any offset of the record.
InitView ==
  /\ \E n \in 0 .. MaxRec, s \in 1 .. MaxStride :
       \E o \in 0 .. s - 1, c \in [1 .. n * s -> Values] :
         /\ heap = [p \in Addr |->
                      IF p = 1 THEN [live |-> TRUE, cells |-> c] ELSE Dead]
         /\ view = array_view_create_data(1, n, s, o)
  /\ arrays = [h \in Handles |-> Zeroed]
  /\ status = "ok"
  /\ phase = "single"
  /\ call = NoCall
  /\ log = << >>
  /\ packed = NULL

\* One call on the view, or one write of the caller to the records.
ViewCall(name, at, val, outcomes) ==
  Call(name, "a", "a", at, val,
       {Res(r.heap, arrays["a"], r.ret, 0, r.st) : r \in outcomes}, MaxCap, FALSE)

ViewSet(id, v) ==
  /\ view # NoView
  /\ ViewCall("view.set", id, v, viewSet(heap, view, id, v))
  /\ UNCHANGED <<view, packed>>

ViewGet(id) ==
  /\ view # NoView
  /\ ViewCall("view.get", id, 0, viewGet(heap, view, id))
  /\ UNCHANGED <<view, packed>>

ViewIndex(id) ==
  /\ view # NoView
  /\ ViewCall("view.index", id, 0, viewIndex(heap, view, id))
  /\ UNCHANGED <<view, packed>>

ViewLast ==
  /\ view # NoView
  /\ ViewCall("view.last", 0, 0, viewLast(heap, view))
  /\ UNCHANGED <<view, packed>>

CopyDeinterlace ==
  /\ view # NoView
  /\ packed = NULL
  /\ ViewCall("view.copy_deinterlace", 0, 0, copy_deinterlace(heap, Refs, view))
  /\ packed' = call'.ret
  /\ UNCHANGED view

\* The caller writes cell k of the records under the view.
SourceWrite(k, v) ==
  /\ view # NoView
  /\ k < Len(heap[view.data].cells)
  /\ ViewCall("source.write", k, v,
              {VRes([heap EXCEPT ![view.data].cells[k + 1] = v], 0, "ok")})
  /\ UNCHANGED <<view, packed>>

NextView ==
  \/ \E id \in 0 .. MaxRec, v \in Values : ViewSet(id, v)
  \/ \E id \in 0 .. MaxRec : ViewGet(id)
  \/ \E id \in 0 .. MaxRec : ViewIndex(id)
  \/ ViewLast
  \/ CopyDeinterlace
  \/ \E k \in 0 .. MaxRec * MaxStride - 1, v \in Values : SourceWrite(k, v)

SpecView == InitView /\ [][NextView]_vars

\* A view created over the array "a", once, among the calls that change "a".
ViewedValues == {10}

CreateView ==
  /\ view = NoView
  /\ Call("view.create", "a", "a", 0, 0, {Res(heap, arrays["a"], 0, 0, "ok")},
          MaxCap, FALSE)
  /\ view' = array_view_create(arrays["a"], 1, 0)
  /\ UNCHANGED packed

NextDangle ==
  \/ CreateView
  \/ \E v \in ViewedValues : Add("a", v)
  \/ Clear("a")
  \/ Pop("a")
  \/ \E to \in 0 .. MaxCap : Resize("a", to)
  \/ Free("a")
  \/ \E at \in Ids : Remove("a", at)
  \/ \E at \in Ids, v \in ViewedValues : Insert("a", at, v)
  \/ Reverse("a")
  \/ \E id \in Ids, v \in ViewedValues : Set("a", id, v)

SpecDangle == Init /\ [][NextDangle]_vars

\* ------------------------------------------------------------------ claims
A == arrays["a"]
B == arrays["b"]

\* The array the last call was made on, before and after it.
Pre == call.pre.arrays[call.h]
Post == arrays[call.h]

RECURSIVE SumResizes(_)
SumResizes(lg) ==
  IF lg = << >> THEN 0 ELSE Head(lg).resizes + SumResizes(Tail(lg))

\* C1: from the zeroed array, four consecutive add calls make at most one
\* call to resize, and the capacity is 4 after the first of them.
C1_FourAddsOneRealloc ==
  /\ Len(log) >= 1 => log[1].capacity = 4
  /\ Len(log) >= 4 => SumResizes(SubSeq(log, 1, 4)) <= 1

\* C2: after n adds on the zeroed array count is n, the k-th add (k from 0)
\* returned k, and get(i) returns the i-th added value for every i < n,
\* however many times the buffer was reallocated.
C2_AddsKeepOrder ==
  /\ A.count = Len(log)
  /\ \A k \in 1 .. Len(log) : log[k].ret = k - 1
  /\ \A i \in 0 .. Len(log) - 1 :
       \A r \in get(heap, A, i) : r.st = "ok" /\ r.ret = log[i + 1].val

\* C2's case: a run of MaxAdds adds that reallocated three times.
C2_Witness ==
  /\ Len(log) = MaxAdds
  /\ SumResizes(log) >= 3
  /\ A.count = MaxAdds

\* C3: an add made while count + 1 <= capacity leaves the capacity and the
\* buffer as they are and calls neither allocate nor deallocate.
C3_AddGrowsOnlyWhenFull ==
  (call.op = "add" /\ Pre.count + 1 <= Pre.capacity)
    => /\ Post.capacity = Pre.capacity
       /\ Post.data = Pre.data
       /\ call.resizes = 0

\* C4: in every state reached from the zeroed array, and for the copy too,
\* 0 <= count <= capacity.
C4_CountWithinCapacity ==
  \A h \in Handles : 0 <= arrays[h].count /\ arrays[h].count <= arrays[h].capacity

\* C4's case: an insert filled the buffer to its capacity.
C4_Witness ==
  /\ call.op = "insert"
  /\ status = "ok"
  /\ Post.count = Post.capacity
  /\ Post.count = Pre.count + 1
  /\ call.resizes = 0

\* C5 as stated: data is null exactly when capacity = 0.
C5_NullIffCapacityZero ==
  \A h \in Handles : (arrays[h].data = NULL) <=> (arrays[h].capacity = 0)

\* C5, amended: data is null only when capacity = 0, a non-null data is a
\* live block of capacity slots, and data is null after free().
C5_NullOnlyIfCapacityZero ==
  /\ \A h \in Handles :
       /\ arrays[h].data = NULL => arrays[h].capacity = 0
       /\ arrays[h].data # NULL =>
            /\ heap[arrays[h].data].live
            /\ Len(heap[arrays[h].data].cells) = arrays[h].capacity
  /\ call.op = "free" => Post.data = NULL

\* C5's case: resize(0) on an array that held a buffer, malloc(0) giving null.
C5_Witness ==
  /\ call.op = "resize"
  /\ call.at = 0
  /\ Pre.capacity > 0
  /\ Post.data = NULL
  /\ Post.capacity = 0

\* C6: get, operator[] and set with index >= count, and last() with count = 0,
\* fail the assertion.
C6_AccessorsChecked ==
  /\ (call.op \in {"get", "index", "set"} /\ call.at >= Pre.count)
       => status = "assert"
  /\ (call.op = "last" /\ Pre.count = 0) => status = "assert"

\* Whether the last call broke the precondition of remove, pop or insert.
C7_Case ==
  \/ call.op = "remove" /\ call.at >= Pre.count
  \/ call.op = "pop" /\ Pre.count = 0
  \/ call.op = "insert" /\ call.at > Pre.count

\* C7: remove(index >= count), pop() on an empty array and insert(index >
\* count) fail the assertion with nothing moved, nothing reallocated and
\* count, capacity and data as before.
C7_AssertBeforeChange ==
  C7_Case => /\ status = "assert"
             /\ call.resizes = 0
             /\ heap = call.pre.heap
             /\ arrays = call.pre.arrays

\* C7's case: insert past the end of a full array, which would have grown.
C7_Witness ==
  /\ call.op = "insert"
  /\ call.at > Pre.count
  /\ Pre.count = Pre.capacity
  /\ status = "assert"

\* C8: insert(i, x) followed by remove(i) gives back the count and the
\* elements from before the insert.
C8_InsertRemove ==
  (call.op = "remove" /\ call.prev.op = "insert" /\ call.prev.at = call.at)
    => /\ status = "ok"
       /\ Post.count = call.prev.count
       /\ Elems(heap, Post) = call.prev.elems

\* C8's case: an insert in the middle that had to grow, then remove.
C8_Witness ==
  /\ call.op = "remove"
  /\ call.prev.op = "insert"
  /\ call.prev.at = call.at
  /\ call.at > 0
  /\ call.at < call.prev.count
  /\ call.prev.resizes = 1

\* C9: add(x) followed by pop() gives back the count from before the add
\* and leaves the elements below it as they were.
C9_AddPop ==
  (call.op = "pop" /\ call.prev.op = "add")
    => /\ status = "ok"
       /\ Post.count = call.prev.count
       /\ Elems(heap, Post) = call.prev.elems

\* C9's case: an add that reallocated a non-empty array, then pop.
C9_Witness ==
  /\ call.op = "pop"
  /\ call.prev.op = "add"
  /\ call.prev.count > 0
  /\ call.prev.resizes = 1

\* The handle the last call was not made on.
Other == IF call.h = "a" THEN "b" ELSE "a"

\* What copy() returned next to its source: same count, capacity and elements,
\* the source left as it was.
C10_SameContents ==
  /\ B.count = A.count
  /\ B.capacity = A.capacity
  /\ Elems(heap, B) = Elems(heap, A)
  /\ A = call.pre.arrays["a"]
  /\ Elems(heap, A) = Elems(call.pre.heap, call.pre.arrays["a"])

\* Whether array X is backed by a block allocated by the last call, distinct
\* from the block of array Y.
C10_FreshBuffer(X, Y) ==
  /\ X.data # NULL
  /\ X.data # Y.data
  /\ ~call.pre.heap[X.data].live
  /\ heap[X.data].live
  /\ Len(heap[X.data].cells) = X.capacity

\* After the call that followed copy(), the array it was not made on has its
\* count, capacity, data and buffer contents as before.
C10_Frame ==
  phase = "after"
    => /\ arrays[Other] = call.pre.arrays[Other]
       /\ Elems(heap, arrays[Other])
            = Elems(call.pre.heap, call.pre.arrays[Other])
       /\ arrays[Other].data # NULL
            => heap[arrays[Other].data] = call.pre.heap[arrays[Other].data]

\* C10 as stated: copy() returns the same count, capacity and elements in a
\* freshly allocated buffer distinct from the source's, and a later call on
\* one of the two arrays leaves the other unchanged.
C10_CopyIndependent ==
  /\ call.op = "copy" => C10_SameContents /\ C10_FreshBuffer(B, A)
  /\ C10_Frame

\* C10, amended: the buffer is freshly allocated and distinct from the
\* source's whenever capacity > 0; with capacity 0 the copy's data is what
\* malloc(0) returned, null or a fresh empty block.
C10_CopyIndependentUnlessEmpty ==
  /\ call.op = "copy"
       => /\ C10_SameContents
          /\ B.capacity > 0 => C10_FreshBuffer(B, A)
          /\ B.data # NULL => C10_FreshBuffer(B, A)
  /\ C10_Frame

\* C10's case: after copy() of a non-empty array, a set on the copy made the
\* two arrays differ.
C10_Witness ==
  /\ phase = "after"
  /\ call.op = "set"
  /\ call.h = "b"
  /\ call.at < Pre.count
  /\ Elems(call.pre.heap, call.pre.arrays["a"])
       = Elems(call.pre.heap, call.pre.arrays["b"])
  /\ Elems(heap, A) # Elems(heap, B)

\* The first n elements of sequence e, and those from 0-based index i on.
Take(e, n) == SubSeq(e, 1, n)
Drop(e, i) == SubSeq(e, i + 1, Len(e))
PreElems == Elems(call.pre.heap, Pre)
PostElems == Elems(heap, Post)

\* C11: resize(k) sets capacity to k; with k < count it truncates count to k
\* and keeps elements [0, k); with k >= count it keeps count and all elements.
C11_Resize ==
  call.op = "resize"
    => /\ status = "ok"
       /\ Post.capacity = call.at
       /\ call.at < Pre.count
            => Post.count = call.at /\ PostElems = Take(PreElems, call.at)
       /\ call.at >= Pre.count
            => Post.count = Pre.count /\ PostElems = PreElems

\* C11's case: a resize that truncated a longer array to a non-empty one.
C11_Witness ==
  /\ call.op = "resize"
  /\ call.at > 0
  /\ call.at < Pre.count
  /\ Post.count = call.at

\* C12: after reverse() get(i) equals what get(count-1-i) was, for every
\* i < count, with count and capacity unchanged; a second reverse() gives
\* back the original order.
C12_Reverse ==
  /\ call.op = "reverse"
       => /\ status = "ok"
          /\ Post.count = Pre.count
          /\ Post.capacity = Pre.capacity
          /\ \A i \in 0 .. Pre.count - 1 :
               \A r \in get(heap, Post, i) :
                 \A q \in get(call.pre.heap, Pre, Pre.count - 1 - i) :
                   r.st = "ok" /\ q.st = "ok" /\ r.ret = q.ret
  /\ (call.op = "reverse" /\ call.prev.op = "reverse")
       => PostElems = call.prev.elems

\* C12's case: a second reverse of an odd-length array that is no palindrome.
C12_Witness ==
  /\ call.op = "reverse"
  /\ call.prev.op = "reverse"
  /\ Pre.count > 1
  /\ Pre.count % 2 = 1
  /\ PostElems # PreElems

\* C13: insert(i, x) with i <= count gives old[0..i) ++ [x] ++ old[i..count)
\* and count + 1, grown or not, and insert(count, x) gives the elements
\* add(x) gives.
C13_Insert ==
  (call.op = "insert" /\ call.at <= Pre.count)
    => /\ status = "ok"
       /\ Post.count = Pre.count + 1
       /\ PostElems = Take(PreElems, call.at) \o << call.val >>
                        \o Drop(PreElems, call.at)
       /\ call.at = Pre.count
            => \A r \in add(call.pre.heap, Referenced(call.pre.arrays), Pre,
                            call.val) :
                 Elems(r.heap, r.arr) = PostElems

\* C13's case: an insert in the middle of a full array, which grew.
C13_Witness ==
  /\ call.op = "insert"
  /\ call.at > 0
  /\ call.at < Pre.count
  /\ call.resizes = 1
  /\ PreElems[call.at + 1] # call.val

\* C14: remove(i) with i < count gives old[0..i) ++ old[i+1..count) and
\* count - 1, with capacity and the buffer as they were.
C14_Remove ==
  (call.op = "remove" /\ call.at < Pre.count)
    => /\ status = "ok"
       /\ Post.count = Pre.count - 1
       /\ PostElems = Take(PreElems, call.at) \o Drop(PreElems, call.at + 1)
       /\ Post.capacity = Pre.capacity
       /\ Post.data = Pre.data
       /\ call.resizes = 0
       /\ heap[Post.data].live

\* C14's case: a remove from the middle of a full array.
C14_Witness ==
  /\ call.op = "remove"
  /\ call.at > 0
  /\ call.at + 1 < Pre.count
  /\ Pre.count = Pre.capacity
  /\ PostElems # Take(PreElems, Post.count)

\* The blocks that are allocated.
LiveBlocks(hp) == {p \in Addr : hp[p].live}

\* C17: free() deallocates the buffer and leaves the zeroed array; with one
\* array the whole state is then the one the program started in, so every
\* later call does what it does on a fresh array; free() on a zeroed array
\* changes nothing.
C17_Free ==
  call.op = "free"
    => /\ status = "ok"
       /\ Post = Zeroed
       /\ Pre.data # NULL
            => call.pre.heap[Pre.data].live /\ ~heap[Pre.data].live
       /\ heap = [p \in Addr |-> Dead]
       /\ arrays = [h \in Handles |-> Zeroed]
       /\ Pre = Zeroed => heap = call.pre.heap /\ arrays = call.pre.arrays

\* C17's case: free() of an array that holds elements.
C17_Witness ==
  /\ call.op = "free"
  /\ Pre.count > 0
  /\ Pre.data # NULL
  /\ Post = Zeroed

\* C18: insert grows exactly when count + 1 > capacity, to 1 from capacity 0
\* and to 2*capacity otherwise; when add grows, it grows to 4 if 2*capacity
\* < 4 and to 2*capacity otherwise.
C18_Growth ==
  /\ (call.op = "insert" /\ call.at <= Pre.count)
       => /\ call.resizes \in {0, 1}
          /\ call.resizes = 1 <=> Pre.count + 1 > Pre.capacity
          /\ call.resizes = 1
               => Post.capacity = IF Pre.capacity = 0 THEN 1 ELSE 2 * Pre.capacity
          /\ call.resizes = 0 => Post.capacity = Pre.capacity
  /\ call.op = "add"
       => /\ call.resizes \in {0, 1}
          /\ call.resizes = 1
               => Post.capacity = IF 2 * Pre.capacity < 4 THEN 4 ELSE 2 * Pre.capacity
          /\ call.resizes = 0 => Post.capacity = Pre.capacity
  /\ (call.op \in {"insert", "add"} /\ call.resizes = 1 /\ Pre.capacity = 0)
       => Post.capacity = IF call.op = "add" THEN 4 ELSE 1

\* C18's case: an insert that doubled a capacity of 4 or more.
C18_Witness ==
  /\ call.op = "insert"
  /\ call.resizes = 1
  /\ Pre.capacity >= 4
  /\ Post.capacity = 2 * Pre.capacity

\* C20: the array's buffer is the only live allocation; every call works on a
\* buffer that is live; a call that reallocates frees the old buffer, which
\* was live, after allocating a distinct new one that holds the elements
\* kept; after free() nothing is allocated.
C20_Ownership ==
  /\ LiveBlocks(heap) = {A.data} \ {NULL}
  /\ A.data # NULL => Len(heap[A.data].cells) = A.capacity
  /\ Pre.data # NULL => call.pre.heap[Pre.data].live
  /\ call.resizes >= 1
       => /\ call.resizes = 1
          /\ Post.data # NULL => Post.data # Pre.data
          /\ Pre.data # NULL => ~heap[Pre.data].live
          /\ call.op \in {"resize", "add"}
               => \A i \in 1 .. Len(PreElems) :
                    i <= Post.capacity => PostElems[i] = PreElems[i]
  /\ call.op = "free" => LiveBlocks(heap) = {}
  /\ status = "fault"
       => \/ call.op \in {"get", "index", "set"} /\ call.at >= Pre.count
          \/ call.op = "last" /\ Pre.count = 0

\* C20's case: an add that moved a non-empty array to a new buffer.
C20_Witness ==
  /\ call.op = "add"
  /\ call.resizes = 1
  /\ Pre.count > 0
  /\ Pre.data # NULL
  /\ ~heap[Pre.data].live
  /\ LiveBlocks(heap) = {A.data}

\* The field of record i that the view addresses, as the memory holds it.
FieldOf(hp, V, i) == hp[V.data].cells[SlotOf(V, i) + 1]

\* C15: a view call with i < count addresses the T at data + i*stride +
\* offset: set(i, v) writes v there and changes no other cell of the records,
\* and get(i) and operator[](i) return what that cell holds, so that a get
\* after a set returns the value set and every other field reads as before.
C15_ViewSetGet ==
  /\ (call.op = "view.set" /\ call.at < view.count /\ status = "ok") =>
       /\ FieldOf(heap, view, call.at) = call.val
       /\ \A k \in 1 .. Len(heap[view.data].cells) :
            k # SlotOf(view, call.at) + 1 =>
              heap[view.data].cells[k] = call.pre.heap[view.data].cells[k]
  /\ (call.op \in {"view.get", "view.index"} /\ call.at < view.count) =>
       call.ret = FieldOf(heap, view, call.at)

\* C16: copy_deinterlace() returns a buffer malloc'ed by the call, of count
\* slots, slot i holding field i of the records; the records are not
\* changed by it, and a later write to the records does not change the buffer.
C16_Deinterlace ==
  /\ call.op = "view.copy_deinterlace" =>
       /\ packed = call.ret
       /\ view.count > 0 => packed # NULL
       /\ packed # NULL =>
            /\ ~call.pre.heap[packed].live
            /\ heap[packed].live
            /\ Len(heap[packed].cells) = view.count
            /\ \A i \in 0 .. view.count - 1 :
                 heap[packed].cells[i + 1] = FieldOf(heap, view, i)
       /\ heap[view.data] = call.pre.heap[view.data]
  /\ (call.op = "source.write" /\ packed # NULL) =>
       heap[packed] = call.pre.heap[packed]

\* The parts of C19 that do not depend on what the view's data was: creation
\* captures data and count, no array call changes the view, a call of add,
\* insert or remove that does not reallocate moves the array's count away
\* from the view's, and remove, clear, reverse and set leave every block as
\* live as it was.
C19_Captured ==
  /\ call.op = "view.create" => view.data = A.data /\ view.count = A.count
  /\ call.pre.view # NoView => view = call.pre.view
  /\ ( /\ call.pre.view # NoView
       /\ call.op \in {"add", "insert", "remove"}
       /\ call.resizes = 0
       /\ status = "ok"
       /\ view.count = Pre.count ) => view.count # Post.count
  /\ (call.pre.view # NoView /\ call.op \in {"remove", "clear", "reverse", "set"}) =>
       \A p \in Addr : heap[p].live = call.pre.heap[p].live

\* The array call just made reallocated or freed while a view existed.
C19_Reallocated ==
  /\ call.pre.view # NoView
  /\ call.resizes >= 1 \/ call.op = "free"

====
